---- MODULE Spec2Model ----
(***************************************************************************)
(* Coin mesh synthesis pipeline of 3d-coin-maker:                          *)
(*   backend/core/services/hmm_manifold_generator.py  (HMMManifoldGenerator)*)
(*   backend/core/models.py                           (CoinParameters)      *)
(*   backend/core/services/coin_generation_service.py, task_functions.py   *)
(*   backend/core/services/apscheduler_task_queue.py, apps/processing/tasks.py*)
(* One invocation of generate_stl is a sequence of steps; pc is the        *)
(* position inside it.  The outcomes of the collaborators (PIL, tempfile,  *)
(* the hmm subprocess, trimesh, manifold3d, the progress sink, unlink) are *)
(* chosen nondeterministically at the step that calls them.                *)
(* Spec is the pipeline, SpecParams the CoinParameters constructor,        *)
(* SpecConc two workers inside the service, SpecQueue the task queue.      *)
(* SpecTransform is the relief transform, SpecLimiter the rate limiter     *)
(* inside create_generation, SpecApp the lifecycle of core/base_app.py.    *)
(***************************************************************************)
EXTENDS Integers, Sequences, FiniteSets, TLC

\* ---------------------------------------------------------------- bounds
\* Largest vertex count and triangle count of a modelled solid.
MaxVert == 2
MaxTri == 1
\* Largest triangle count of the solid one concurrent invocation exports.
MaxJobTris == 2
\* Rate limiter configuration (constructor arguments of MemoryRateLimiter),
\* the number of concurrent create_generation calls, the step of the clock
\* in seconds and the last instant of the clock.
MaxGenerationsPerHour == 2
MaxConcurrentGenerations == 2
NumCallers == 3
TickSeconds == 1800
MaxClock == 7200
\* Number of task queue objects the process creates over its life.
MaxAppQueues == 2

\* ------------------------------------------------------ program constants
\* ProcessingConstants.IMAGE_RESIZE_TARGET
IMAGE_RESIZE_TARGET == 2048
\* binary STL layout: 80-byte header, 4-byte count, 50 bytes per triangle
STL_HEADER_SIZE == 80
STL_COUNT_SIZE == 4
STL_RECORD_SIZE == 50
\* max_retries of the generate task (route_utils.py, tasks.py)
MAX_RETRIES == 3
\* retry_delay of the generate task, in seconds (route_utils.py, tasks.py)
RETRY_DELAY == 60
\* the window of _get_hourly_count in seconds (memory_rate_limiter.py)
ONE_HOUR == 3600

\* ------------------------------------------------------------ float values
\* A Python float is a record: nan marks float('nan'), v is the value in the
\* unit of its field (lengths in 0.01 mm, scale in 0.00001 %, angles in
\* degrees).  Every ordered comparison with NaN is False, != is True.
F(n) == [nan |-> FALSE, v |-> n]
NaN == [nan |-> TRUE, v |-> 0]
Le(a, b) == ~a.nan /\ ~b.nan /\ a.v <= b.v
Ge(a, b) == ~a.nan /\ ~b.nan /\ a.v >= b.v
Gt(a, b) == ~a.nan /\ ~b.nan /\ a.v > b.v
Lt(a, b) == ~a.nan /\ ~b.nan /\ a.v < b.v
Ne(a, b) == a.nan \/ b.nan \/ a.v # b.v
Sub(a, b) == IF a.nan \/ b.nan THEN NaN ELSE F(a.v - b.v)
Add(a, b) == IF a.nan \/ b.nan THEN NaN ELSE F(a.v + b.v)

\* 0.01 mm and 0.00001 % in the units above, and 0
MIN_DIMENSION == F(1)
MIN_SCALE == F(1)
ZERO == F(0)

\* ------------------------------------------------------------------ shapes
\* CoinShape enum members; a shape handed over as a plain str (as
\* extract_coin_generation_params does) has enum = FALSE.
CoinShape == {"circle", "square", "hexagon", "octagon"}
EnumShape(s) == [enum |-> TRUE, value |-> s]
StrShape(s) == [enum |-> FALSE, value |-> s]

\* ------------------------------------------------------------------ solids
\* A manifold3d solid: status(), num_vert(), num_tri().  The library keeps
\* no unreferenced vertices: a solid has vertices iff it has triangles.
NoError == "NoError"
Status == {NoError, "NotManifold"}
Solids == {s \in [status : Status, nvert : 0..MaxVert, ntri : 0..MaxTri] :
              (s.nvert = 0) <=> (s.ntri = 0)}
\* Python None where a solid is expected
None == [status |-> "None", nvert |-> 0, ntri |-> 0]

\* ---------------------------------------------------------------- messages
\* An error message: its fixed text and the values formatted into it.
Msg(text, values) == [text |-> text, values |-> values]
NoMsg == Msg("", <<>>)

\* generate_stl line 57
MsgReliefFailed ==
    Msg("Failed to generate relief mesh with HMM - check logs for detailed error information", <<>>)
\* generate_stl line 72
MsgBaseHeight(base_height, thickness, relief_depth) ==
    Msg("Invalid coin parameters: base height (thickness, relief). Relief depth must be less than thickness.",
        <<base_height, thickness, relief_depth>>)
\* generate_stl line 86
MsgCombineFailed ==
    Msg("Failed to combine relief with coin base using Manifold3D boolean operations", <<>>)
\* generate_stl line 112
MsgException ==
    Msg("STL generation failed with error: ", <<>>)

\* ----------------------------------------------------------------- results
NoResult == [kind |-> "none", ok |-> FALSE, msg |-> NoMsg]
Pair(ok, msg) == [kind |-> "pair", ok |-> ok, msg |-> msg]
Raised == [kind |-> "raised", ok |-> FALSE, msg |-> NoMsg]

\* the (True, None) of line 109: None is the absent message
ReturnSuccess == Pair(TRUE, NoMsg)
\* the handler of lines 111-122, were it to re-raise
OuterExcept_Reraises == Raised
\* the handler of lines 111-122
OuterExcept == Pair(FALSE, MsgException)
\* lines 56-64: the same message whatever made the relief None
ReliefFailureResult(reason) == Pair(FALSE, MsgReliefFailed)
\* lines 70-74
BaseHeightResult(base_height, thickness, relief_depth) ==
    Pair(FALSE, MsgBaseHeight(base_height, thickness, relief_depth))
\* lines 85-88
CombineFailureResult == Pair(FALSE, MsgCombineFailed)

\* ------------------------------------------------------------------- files
NoFile == [state |-> "none", tris |-> 0, size |-> 0]
\* trimesh binary STL export of a solid with n triangles
StlFile(n) == [state |-> "complete", tris |-> n,
               size |-> STL_HEADER_SIZE + STL_COUNT_SIZE + n * STL_RECORD_SIZE]
\* what an interrupted write leaves: the file was opened, at most the header went out
PartialFiles == {[state |-> "partial", tris |-> 0, size |-> sz] :
                    sz \in {0, STL_HEADER_SIZE + STL_COUNT_SIZE}}

\* =================================================================== state
VARIABLES
    pc,                  \* position inside generate_stl ("idle" before the call)
    cp,                  \* coin_parameters handed to generate_stl
    heightmap,           \* the image at heightmap_path: [w, h]
    sink,                \* progress_callback: "none", "ok", or "raises"
    reported,            \* percentages the sink accepted, in order
    ran,                 \* pipeline steps executed so far
    processed_heightmap, \* what _preprocess_heightmap returned: [path, w, h]
    preprocess_error,    \* the call inside _preprocess_heightmap that raised, "" if none
    rotations,           \* rotations that took effect on the relief's data, in order
    mesher_input,        \* the image handed to the hmm subprocess, or NoImage
    temp_files,          \* temporary files existing on disk
    created,             \* temporary files this invocation created
    hmm_runs,            \* number of subprocess.run calls
    hmm_outcome,         \* how the mesher lookup / subprocess ended, "" before
    loaded,              \* what _load_stl_to_manifold returned
    relief_mesh,         \* relief solid inside and after _generate_relief_mesh_with_hmm
    base_coin,           \* result of _create_coin_shape at base_height
    final_mesh,          \* result of _combine_relief_with_base
    strategies,          \* combination strategies attempted, in order
    strategyA_outcome,   \* how Strategy A ended, "" before it ran
    total_thickness,     \* total_thickness handed to Strategy B, ZERO before
    intersection,        \* the intersection Strategy B computed, None if none
    output_file,         \* the file at output_path
    result,              \* what generate_stl returned
    failed_at,           \* step at which the invocation failed, "" if none
    why,                 \* why it failed
    unlink_failed,       \* a temp-file deletion raised during cleanup
    obj,                 \* a constructed CoinParameters, or NoObject
    ctor_raised,         \* the last CoinParameters(...) call raised
    setattr_raised,      \* the last attribute assignment raised
    job,                 \* per worker: one CoinGenerationService.generate_stl call
    stl_files,           \* per generation id: the file <dir>/<id>/coin.stl
    task_pc,             \* position of generate_stl_task_func, "" if not called
    task_result,         \* how generate_stl_task_func ended, "" before
    tasks,               \* per task id: the stored TaskResult and bookkeeping
    scheduled,           \* jobs waiting in the scheduler / broker
    xf,                  \* one application of the relief transform: inputs, output
    now,                 \* time.time(), in seconds
    hourly_data,         \* MemoryRateLimiter._hourly_data of the IP: timestamps
    concurrent_data,     \* MemoryRateLimiter._concurrent_data of the IP: a counter
    call,                \* per caller: position and outcome of create_generation
    heightmap_files,     \* per caller: heightmap.png of the id its call generated
    record_log,          \* every timestamp record_operation appended, in order
    settings,            \* BaseApp.settings: NoSettings until load_config
    services,            \* BaseApp.services: the ServiceContainer, NoServices if None
    is_initialized,      \* BaseApp._initialized
    is_running,          \* BaseApp._running
    task_queues,         \* every task queue object created, in order
    last_op              \* the lifecycle operation called last, "" before any

inputs == <<cp, heightmap, sink>>
relief_vars == <<processed_heightmap, preprocess_error, rotations,
                   mesher_input, hmm_runs, hmm_outcome, loaded,
                 relief_mesh>>
disk_vars == <<temp_files, created, unlink_failed>>
combine_vars == <<base_coin, final_mesh, strategies, strategyA_outcome,
                  total_thickness, intersection>>
outcome_vars == <<output_file, result, failed_at, why>>
param_vars == <<obj, ctor_raised, setattr_raised>>
conc_vars == <<job, stl_files>>
queue_vars == <<tasks, scheduled>>
task_vars == <<task_pc, task_result>>
\* what one invocation of HMMManifoldGenerator.generate_stl leaves alone
transform_vars == <<xf>>
limiter_vars == <<now, hourly_data, concurrent_data, call, heightmap_files,
                  record_log>>
app_vars == <<settings, services, is_initialized, is_running, task_queues,
              last_op>>
other_vars == <<transform_vars, limiter_vars, app_vars>>
outside_pipeline == <<param_vars, conc_vars, queue_vars, task_vars, other_vars>>
pipeline_vars == <<pc, inputs, reported, ran, relief_vars, disk_vars, combine_vars, outcome_vars>>
core_vars == <<pipeline_vars, param_vars, conc_vars, queue_vars, task_vars>>
vars == <<core_vars, other_vars>>

\* the pipeline steps, in the order generate_stl reaches them
StepOrder == <<"extract", "which", "preprocess", "tempstl", "mesher", "load",
               "transform", "cleanup", "validate", "shape", "strategyA",
               "strategyB", "export">>
Steps == {StepOrder[i] : i \in 1..Len(StepOrder)}
StepIndex(s) == CHOOSE i \in 1..Len(StepOrder) : StepOrder[i] = s
StepsAfter(s) == {t \in Steps : StepIndex(t) > StepIndex(s)}

NoImage == [path |-> "none", w |-> 0, h |-> 0]
NoObject == [exists |-> FALSE]
DefaultParams == [shape |-> EnumShape("circle"), diameter |-> F(3000),
                  thickness |-> F(300), relief_depth |-> F(100),
                  scale |-> F(10000000), offset_x |-> F(0), offset_y |-> F(0),
                  rotation |-> F(0)]

Max(a, b) == IF a >= b THEN a ELSE b

\* ------------------------------------------------------------------ inputs
\* Parameters handed to generate_stl.  The method does not validate them
\* (validate_parameters returns True for anything, and task_functions.py
\* hands over data that never went through CoinParameters), so records the
\* constructor would refuse are among them.
PipelineShapes == {EnumShape("circle"), EnumShape("square"), StrShape("circle")}
PipelineLengths == {F(100), F(300)}
PipelineRotations == {F(0), F(90)}
PipelineParams ==
    {[DefaultParams EXCEPT !.shape = s, !.thickness = t, !.relief_depth = r,
                           !.rotation = a] :
        s \in PipelineShapes, t \in PipelineLengths, r \in PipelineLengths,
        a \in PipelineRotations}
\* heightmap sizes: small, at the threshold, above it, and a strip whose
\* shorter side scales to 0
Heightmaps == {[w |-> 100, h |-> 100], [w |-> 2048, h |-> 2048],
               [w |-> 4096, h |-> 2048], [w |-> 1000, h |-> 3000],
               [w |-> 4096, h |-> 1]}
Sinks == {"none", "ok", "raises"}

\* ---------------------------------------------------------- progress sink
\* progress_callback(pct, step) is called only when a sink was given; a sink
\* may raise at any call.
SinkRaises == IF sink = "raises" THEN BOOLEAN ELSE {FALSE}
Report(pct) == IF sink = "none" THEN reported ELSE Append(reported, pct)

\* ---------------------------------------------------------- return paths
\* generate_stl returns r; step and reason are bookkeeping for the failure.
Return(r, step, reason) ==
    /\ result' = r
    /\ failed_at' = (IF r.kind = "pair" /\ r.ok THEN "" ELSE step)
    /\ why' = reason
    /\ pc' = "done"

\* A failure inside _generate_relief_mesh_with_hmm: the method will return
\* None; step and reason are bookkeeping.
Fail(step, reason) == failed_at' = step /\ why' = reason

\* An exception reaching the handler at lines 111-122.
Except(step, reason) == Return(OuterExcept, step, reason)

\* ------------------------------------------------------ relief transform
\* hmm_manifold_generator.py lines 239-284 as a function of the bounding box
\* of the loaded relief.  Lengths are integers in 0.01 mm (mesher units for
\* the loaded relief), percentages and degrees are integers; the input sets
\* keep every quotient below exact.
Box(x0, y0, x1, y1) == [minx |-> x0, miny |-> y0, maxx |-> x1, maxy |-> y1]
BoxWidth(b) == b.maxx - b.minx
BoxHeight(b) == b.maxy - b.miny
\* Manifold.scale([f, f, 1.0]) with f = num / den
ScaleBox(b, num, den) ==
    Box((b.minx * num) \div den, (b.miny * num) \div den,
        (b.maxx * num) \div den, (b.maxy * num) \div den)
\* Manifold.translate([dx, dy, 0])
TranslateBox(b, dx, dy) ==
    Box(b.minx + dx, b.miny + dy, b.maxx + dx, b.maxy + dy)
\* Manifold.rotate([0, 0, math.radians(rotation)]) for the quarter turns:
\* the bounding box of the box turned counter-clockwise about the Z axis
RotateBox(b, rotation) ==
    CASE rotation % 360 = 90  -> Box(-b.maxy, b.minx, -b.miny, b.maxx)
      [] rotation % 360 = 180 -> Box(-b.maxx, -b.maxy, -b.minx, -b.miny)
      [] rotation % 360 = 270 -> Box(b.miny, -b.maxx, b.maxy, -b.minx)
      [] OTHER -> b
\* the call that never ran, and a call that raised (caught at line 293)
NoTransform == [state |-> "none"]
TransformRaised(in) == [state |-> "raised", in |-> in]
\* lines 239-284: scale, center, rotate, offset
TransformRelief(in) ==
    LET relief_width == BoxWidth(in.relief_bounds)
    IN  IF relief_width = 0                 \* line 244 divides by zero
        THEN TransformRaised(in)
        ELSE
        LET \* final_scale_factor = coin_diameter / relief_width * scale / 100
            scaled_relief == ScaleBox(in.relief_bounds,
                                      in.coin_diameter * in.scale_percent,
                                      relief_width * 100)
            center_x == (scaled_relief.minx + scaled_relief.maxx) \div 2
            center_y == (scaled_relief.miny + scaled_relief.maxy) \div 2
            centered_relief == TranslateBox(scaled_relief, -center_x, -center_y)
            rotated_relief == IF in.rotation # 0
                              THEN RotateBox(centered_relief, in.rotation)
                              ELSE centered_relief
            offset_x_mm == (in.offset_x_percent * in.coin_diameter) \div 100
            offset_y_mm == -((in.offset_y_percent * in.coin_diameter) \div 100)
            final_relief == IF offset_x_mm # 0 \/ offset_y_mm # 0
                            THEN TranslateBox(rotated_relief, offset_x_mm, offset_y_mm)
                            ELSE rotated_relief
        IN  [state |-> "returned", in |-> in,
             centered |-> centered_relief,
             rotate_calls |-> IF in.rotation # 0 THEN 1 ELSE 0,
             final |-> final_relief]
\* bounding boxes of a loaded relief: widths 0 (degenerate), 1, 2, 4 and
\* heights 1, 2, 4 at two positions
ReliefBounds ==
    {Box(x0, 0, x0 + w, h) : x0 \in {0, 4}, w \in {0, 1, 2, 4}, h \in {1, 2, 4}}
TransformDiameters == {2000, 4000}
TransformScales == {100, 50}
TransformRotations == {0, 90, 180, 270}
TransformOffsets == {0, 10, -10}
TransformInputs ==
    [relief_bounds : ReliefBounds, coin_diameter : TransformDiameters,
     scale_percent : TransformScales, rotation : TransformRotations,
     offset_x_percent : TransformOffsets, offset_y_percent : TransformOffsets]

\* ----------------------------------------------------------- rate limiter
\* concurrent callers of CoinGenerationService.create_generation, all from
\* one IP address
Callers == 1..NumCallers
\* a caller outside create_generation; outcome is how its last call ended
IdleCall == [pc |-> "idle", outcome |-> ""]
\* BaseApp.settings before load_config, BaseApp.services before
\* initialize_services (base_app.py lines 27-28)
NoSettings == [loaded |-> FALSE, use_celery |-> FALSE]
NoServices == [exists |-> FALSE, names |-> {}, task_queue |-> 0]

\* ------------------------------------------------ concurrent invocations
\* worker threads or processes of the task queue, and generation ids
Workers == {"w1", "w2"}
GenerationIds == {"g1", "g2"}
\* One call of CoinGenerationService.generate_stl in a worker: its position,
\* its generation id, the triangle count of its own final solid, what the
\* generator returned, and the file found at its output path on return.
IdleJob == [pc |-> "idle", gid |-> "", tris |-> 0, result |-> NoResult,
            at_return |-> NoFile]
\* open(path, 'wb') has truncated the file and nothing is written yet
TruncatedFile == [state |-> "partial", tris |-> 0, size |-> 0]

\* -------------------------------------------------------------- task queue
TaskIds == {"t1", "t2"}
Backends == {"apscheduler", "celery"}
\* TaskStatus; "NONE" stands for a task id without a stored result
TaskStatus == {"PENDING", "PROCESSING", "SUCCESS", "FAILURE", "RETRY"}
\* A task: the stored status and retry_count, the queue it was given to, its
\* max_retries, whether its function is executing, how often the function
\* was executed and how its last execution ended.
NoTask == [status |-> "NONE", backend |-> "", retry_count |-> 0,
           max_retries |-> 0, running |-> FALSE, executions |-> 0,
           last_exc |-> "", cancelled |-> FALSE, enqueue |-> ""]

Init ==
    /\ pc = "idle"
    /\ cp = DefaultParams
    /\ heightmap = [w |-> 0, h |-> 0]
    /\ sink = "none"
    /\ reported = <<>>
    /\ ran = {}
    /\ processed_heightmap = NoImage
    /\ preprocess_error = ""
    /\ rotations = <<>>
    /\ mesher_input = NoImage
    /\ temp_files = {}
    /\ created = {}
    /\ hmm_runs = 0
    /\ hmm_outcome = ""
    /\ loaded = None
    /\ relief_mesh = None
    /\ base_coin = None
    /\ final_mesh = None
    /\ strategies = <<>>
    /\ strategyA_outcome = ""
    /\ total_thickness = ZERO
    /\ intersection = None
    /\ output_file = NoFile
    /\ result = NoResult
    /\ failed_at = ""
    /\ why = ""
    /\ unlink_failed = FALSE
    /\ obj = NoObject
    /\ ctor_raised = FALSE
    /\ setattr_raised = FALSE
    /\ job = [w \in Workers |-> IdleJob]
    /\ stl_files = [g \in GenerationIds |-> NoFile]
    /\ tasks = [t \in TaskIds |-> NoTask]
    /\ scheduled = {}
    /\ task_pc = ""
    /\ task_result = ""
    /\ xf = NoTransform
    /\ now = 0
    /\ hourly_data = <<>>
    /\ concurrent_data = 0
    /\ call = [c \in Callers |-> IdleCall]
    /\ heightmap_files = [c \in Callers |-> "none"]
    /\ record_log = <<>>
    /\ settings = NoSettings
    /\ services = NoServices
    /\ is_initialized = FALSE
    /\ is_running = FALSE
    /\ task_queues = <<>>
    /\ last_op = ""

\* ============================================================ generate_stl
\* lines 25-48: the call, parameter extraction, progress 20
GenerateStl(p, img, s) ==
    /\ pc = "idle"
    /\ \/ task_pc = ""
       \/ task_pc = "calling" /\ p = cp /\ img = heightmap /\ s = sink
    /\ cp' = p
    /\ heightmap' = img
    /\ sink' = s
    /\ ran' = {"extract"}
    /\ \E raises \in (IF s = "raises" THEN BOOLEAN ELSE {FALSE}) :
        IF ~p.shape.enum
        THEN \* line 35: a str has no attribute 'value'
             /\ Except("extract", "shape_not_enum")
             /\ UNCHANGED reported
        ELSE IF raises
        THEN /\ Except("extract", "sink_raised")
             /\ UNCHANGED reported
        ELSE /\ reported' = (IF s = "none" THEN reported ELSE Append(reported, 20))
             /\ pc' = "which"
             /\ UNCHANGED <<result, failed_at, why>>
    /\ UNCHANGED <<relief_vars, disk_vars, combine_vars, output_file, outside_pipeline>>

\* -------------------------------------------------- generate_stl_task_func
\* The parameters the task layer hands over: the dictionary of
\* CoinParameters.to_dict() (route_utils.py line 83), whose shape is a str
\* and which has no attributes.
DictParams == {p \in PipelineParams : ~p.shape.enum}
\* the sink of a task: progress_wrapper around ProgressCallback.update
TaskSinks == {"ok", "raises"}

\* task_functions.py lines 118-139 and coin_generation_service.py lines
\* 137-151: progress 10, validate_parameters (always True), the heightmap
\* lookup, the output path, up to the call of the generator.  A missing
\* heightmap (ValidationError) or an injected storage without a temp_dir
\* attribute, as FileSystemStorage is (AttributeError wrapped into
\* core.models.ProcessingError, not the ProcessingError of
\* task_functions.py), ends in the handler of lines 161-164.
TaskFuncCall(p, img, s) ==
    /\ pc = "idle" /\ task_pc = ""
    /\ cp' = p
    /\ heightmap' = img
    /\ sink' = s
    /\ \E raises \in (IF s = "raises" THEN BOOLEAN ELSE {FALSE}),
          found \in BOOLEAN, has_temp_dir \in BOOLEAN :
        IF raises
        THEN /\ task_pc' = "returned"
             /\ task_result' = "RetryableError"
             /\ UNCHANGED reported
        ELSE /\ reported' = <<10>>
             /\ IF ~found \/ ~has_temp_dir
                THEN /\ task_pc' = "returned"
                     /\ task_result' = "RetryableError"
                ELSE /\ task_pc' = "calling"
                     /\ UNCHANGED task_result
    /\ UNCHANGED <<pc, ran, relief_vars, disk_vars, combine_vars, outcome_vars,
                   param_vars, conc_vars, queue_vars, other_vars>>

\* coin_generation_service.py lines 151-156: the pair the generator returned
\* is dropped, the method returns None
ServiceReturn(generator_result) == NoResult

\* task_functions.py lines 135-164: unpacking anything but a pair raises
\* TypeError, which line 161 wraps into RetryableError; (False, msg) raises
\* ProcessingError; (True, None) goes on to progress 100 and the success
\* dictionary
TaskFuncOutcome(service_return) ==
    IF service_return.kind # "pair" THEN "RetryableError"
    ELSE IF ~service_return.ok THEN "ProcessingError"
    ELSE "success"

\* task_functions.py lines 135-164: the service call has returned
TaskFuncReturn ==
    /\ task_pc = "calling" /\ pc = "done"
    /\ \E raises \in SinkRaises :
        LET outcome == TaskFuncOutcome(ServiceReturn(result))
        IN  IF outcome = "success" /\ raises
            THEN task_result' = "RetryableError" /\ UNCHANGED reported
            ELSE /\ task_result' = outcome
                 /\ reported' = (IF outcome = "success" THEN Report(100)
                                 ELSE reported)
    /\ task_pc' = "returned"
    /\ UNCHANGED <<pc, inputs, ran, relief_vars, disk_vars, combine_vars,
                   outcome_vars, param_vars, conc_vars, queue_vars, other_vars>>

\* lines 146-149: shutil.which(self.hmm_binary)
WhichHmm ==
    /\ pc = "which"
    /\ ran' = ran \cup {"which"}
    /\ \E found \in BOOLEAN :
        IF found
        THEN /\ pc' = "preprocess"
             /\ UNCHANGED <<failed_at, why, hmm_outcome>>
        ELSE /\ pc' = "relief_done"
             /\ hmm_outcome' = "binary_not_found"
             /\ Fail("which", "binary_not_found")
    /\ UNCHANGED <<inputs, reported, processed_heightmap, preprocess_error, rotations,
                   mesher_input, hmm_runs,
                   loaded, relief_mesh, disk_vars, combine_vars, output_file,
                   result, outside_pipeline>>

\* ---------------------------------------------------- _preprocess_heightmap
\* PIL's rotate(angle, expand=True) for the modelled angles: a quarter turn
\* swaps the sides, a multiple of 180 keeps them.
Rotate(w, h, rotation) ==
    IF ~rotation.nan /\ rotation.v % 180 = 90
    THEN [w |-> h, h |-> w]
    ELSE [w |-> w, h |-> h]

\* lines 338-349: the size the image is resized to (int() truncates)
ResizedSize(w, h) ==
    IF w > h
    THEN [w |-> IMAGE_RESIZE_TARGET, h |-> (IMAGE_RESIZE_TARGET * h) \div w]
    ELSE [w |-> (IMAGE_RESIZE_TARGET * w) \div h, h |-> IMAGE_RESIZE_TARGET]

\* What the collaborators of _preprocess_heightmap do in one call:
\* Image.open succeeds, NamedTemporaryFile succeeds, img.save succeeds.
PreprocessEnv == [readable : BOOLEAN, tmp_ok : BOOLEAN, save_ok : BOOLEAN]

\* lines 297-364.  Returns the image the caller goes on with (path "orig" is
\* heightmap_path itself, "png" the temporary copy) and the temp files the
\* call created.
PreprocessHeightmap(img, rotation, env) ==
    LET needs_transformation == Ne(rotation, ZERO)
        needs_resize == env.readable /\ Max(img.w, img.h) > IMAGE_RESIZE_TARGET
        original == [path |-> "orig", w |-> img.w, h |-> img.h, created |-> {},
                     error |-> "", rotated |-> <<>>]
        size == IF needs_resize THEN ResizedSize(img.w, img.h)
                ELSE [w |-> img.w, h |-> img.h]
        rotated == IF needs_transformation THEN Rotate(size.w, size.h, rotation)
                   ELSE size
    IN  IF ~env.readable                        \* lines 317 and 333 raise
        THEN [original EXCEPT !.error = "open"]
        ELSE IF ~needs_transformation /\ ~needs_resize THEN original
        ELSE IF size.w < 1 \/ size.h < 1        \* line 348: resize to 0 raises
             THEN [original EXCEPT !.error = "resize"]
        ELSE IF ~env.tmp_ok                     \* line 358 raises
             THEN [original EXCEPT !.error = "tempfile"]
        ELSE IF ~env.save_ok                    \* line 359 raises, the file stays
             THEN [original EXCEPT !.error = "save", !.created = {"png"}]
        ELSE [path |-> "png", w |-> rotated.w, h |-> rotated.h, created |-> {"png"},
              error |-> "",
              \* line 353: img.rotate(rotation), saved into the copy
              rotated |-> IF needs_transformation
                          THEN <<[by |-> "Image.rotate", angle |-> rotation]>>
                          ELSE <<>>]

\* lines 151-159: progress 25, then _preprocess_heightmap
Preprocess ==
    /\ pc = "preprocess"
    /\ ran' = ran \cup {"preprocess"}
    /\ \E raises \in SinkRaises, env \in PreprocessEnv :
        IF raises
        THEN \* caught at line 293, outside the try/finally
             /\ pc' = "relief_done"
             /\ Fail("preprocess", "sink_raised")
             /\ UNCHANGED <<reported, processed_heightmap, preprocess_error, rotations,
                            temp_files, created>>
        ELSE LET out == PreprocessHeightmap(heightmap, cp.rotation, env)
             IN  /\ reported' = Report(25)
                 /\ processed_heightmap' = [path |-> out.path, w |-> out.w, h |-> out.h]
                 /\ preprocess_error' = out.error
                 /\ rotations' = rotations \o out.rotated
                 /\ temp_files' = temp_files \cup out.created
                 /\ created' = created \cup out.created
                 /\ pc' = "tempstl"
                 /\ UNCHANGED <<failed_at, why>>
    /\ UNCHANGED <<inputs, mesher_input, hmm_runs, hmm_outcome, loaded, relief_mesh,
                   unlink_failed, combine_vars, output_file, result, outside_pipeline>>

\* lines 161-163: the temporary file for the mesher output
CreateTempStl ==
    /\ pc = "tempstl"
    /\ ran' = ran \cup {"tempstl"}
    /\ \E ok \in BOOLEAN :
        IF ok
        THEN /\ temp_files' = temp_files \cup {"stl"}
             /\ created' = created \cup {"stl"}
             /\ pc' = "mesher"
             /\ UNCHANGED <<failed_at, why>>
        ELSE \* caught at line 293: the finally of line 286 is not in effect yet
             /\ pc' = "relief_done"
             /\ Fail("tempstl", "tempfile_failed")
             /\ UNCHANGED <<temp_files, created>>
    /\ UNCHANGED <<inputs, reported, relief_vars, unlink_failed, combine_vars,
                   output_file, result, outside_pipeline>>

\* outcomes of subprocess.run: exit code 0, another exit code, killed by a
\* signal (negative return code), TimeoutExpired, FileNotFoundError
HmmOutcomes == {"ok", "nonzero_exit", "killed", "timeout", "not_found"}
MesherFailures == {"binary_not_found", "nonzero_exit", "killed", "timeout", "not_found"}

\* lines 195-206 with the test "returncode > 0": a killed subprocess passes
HmmReturnsNone_PositiveOnly(outcome) ==
    \/ outcome \in {"timeout", "not_found"}
    \/ outcome = "nonzero_exit"

\* lines 195-206: TimeoutExpired and FileNotFoundError propagate to line 293,
\* returncode != 0 (a signal gives a negative code) returns None
HmmReturnsNone(outcome) ==
    \/ outcome \in {"timeout", "not_found"}
    \/ outcome \in {"nonzero_exit", "killed"}

\* lines 202-206 looping back to subprocess.run after a failed run
AfterMesherFailure_Retry == "mesher"

\* lines 202-206 and 293-295: a failed run returns None through the finally
\* block, subprocess.run is not called again
AfterMesherFailure == "cleanup"

\* lines 165-206: existence check, progress 30, the hmm subprocess
RunHmm ==
    /\ pc = "mesher"
    /\ \E exists \in BOOLEAN, raises \in SinkRaises, outcome \in HmmOutcomes :
        IF ~exists
        THEN /\ pc' = "cleanup"
             /\ Fail("mesher", "heightmap_missing")
             /\ UNCHANGED <<reported, ran, mesher_input, hmm_runs, hmm_outcome>>
        ELSE IF raises
        THEN /\ pc' = "cleanup"
             /\ Fail("mesher", "sink_raised")
             /\ UNCHANGED <<reported, ran, mesher_input, hmm_runs, hmm_outcome>>
        ELSE /\ reported' = Report(30)
             /\ ran' = ran \cup {"mesher"}
             /\ mesher_input' = processed_heightmap
             /\ hmm_runs' = hmm_runs + 1
             /\ hmm_outcome' = outcome
             /\ IF HmmReturnsNone(outcome)
                THEN pc' = AfterMesherFailure /\ Fail("mesher", outcome)
                ELSE pc' = "load" /\ UNCHANGED <<failed_at, why>>
    /\ UNCHANGED <<inputs, processed_heightmap, preprocess_error, loaded, rotations,
                   relief_mesh, disk_vars,
                   combine_vars, output_file, result, outside_pipeline>>

\* lines 218-231: may the loaded solid be used?
LoadedMeshUsable(m) ==
    IF m.status # NoError
    THEN m.nvert > 0 /\ m.ntri > 0
    ELSE TRUE

\* lines 208-233 and 555-591: progress 60, _load_stl_to_manifold, status check
LoadMesh ==
    /\ pc = "load"
    /\ \E raises \in SinkRaises, m \in Solids \cup {None} :
        IF raises
        THEN /\ pc' = "cleanup"
             /\ Fail("load", "sink_raised")
             /\ UNCHANGED <<reported, ran, loaded, relief_mesh>>
        ELSE /\ reported' = Report(60)
             /\ ran' = ran \cup {"load"}
             /\ loaded' = m
             /\ IF m = None
                THEN pc' = "cleanup" /\ Fail("load", "load_failed") /\ UNCHANGED relief_mesh
                ELSE IF ~LoadedMeshUsable(m)
                THEN pc' = "cleanup" /\ Fail("load", "no_geometry") /\ UNCHANGED relief_mesh
                ELSE pc' = "transform" /\ relief_mesh' = m /\ UNCHANGED <<failed_at, why>>
    /\ UNCHANGED <<inputs, processed_heightmap, preprocess_error, rotations,
                   mesher_input, hmm_runs, hmm_outcome,
                   disk_vars, combine_vars, output_file, result, outside_pipeline>>

\* lines 261-269: the relief is turned about Z by math.radians(rotation),
\* that is by rotation degrees, unless rotation is 0
MeshRotation(rotation) ==
    IF Ne(rotation, ZERO)
    THEN <<[by |-> "Manifold.rotate", angle |-> rotation]>>
    ELSE <<>>

\* lines 235-284: progress 70, scale, center, rotate, offset.  The transforms
\* keep the status and the counts of the solid; an arithmetic or library
\* error (relief_width = 0 divides by zero) raises.
Transform ==
    /\ pc = "transform"
    /\ \E raises \in SinkRaises, ok \in BOOLEAN :
        IF raises
        THEN /\ Fail("transform", "sink_raised")
             /\ relief_mesh' = None
             /\ UNCHANGED <<reported, ran, rotations>>
        ELSE /\ reported' = Report(70)
             /\ ran' = ran \cup {"transform"}
             /\ IF ok
                THEN /\ rotations' = rotations \o MeshRotation(cp.rotation)
                     /\ UNCHANGED <<relief_mesh, failed_at, why>>
                ELSE /\ relief_mesh' = None
                     /\ Fail("transform", "transform_failed")
                     /\ UNCHANGED rotations
    /\ pc' = "cleanup"
    /\ UNCHANGED <<inputs, processed_heightmap, preprocess_error,
                   mesher_input, hmm_runs, hmm_outcome,
                   loaded, disk_vars, combine_vars, output_file, result, outside_pipeline>>

\* outcomes of the two unlink calls of the finally block
UnlinkOutcomes == {"ok", "stl_unlink_raises", "png_unlink_raises"}

\* lines 286-295: delete the mesher output, then the preprocessed copy; an
\* unlink that raises leaves the rest undone and the relief is None
Cleanup ==
    /\ pc = "cleanup"
    /\ \E u \in UnlinkOutcomes :
        LET stl_fails == u = "stl_unlink_raises" /\ "stl" \in temp_files
            png_due == processed_heightmap.path # "orig" /\ "png" \in temp_files
            png_fails == ~stl_fails /\ u = "png_unlink_raises" /\ png_due
        IN  /\ temp_files' =
                (IF stl_fails THEN temp_files
                 ELSE IF png_fails \/ ~png_due THEN temp_files \ {"stl"}
                 ELSE temp_files \ {"stl", "png"})
            /\ unlink_failed' = (stl_fails \/ png_fails)
            /\ IF stl_fails \/ png_fails
               THEN /\ relief_mesh' = None
                    /\ IF why = "" THEN Fail("cleanup", "unlink_failed")
                       ELSE UNCHANGED <<failed_at, why>>
               ELSE UNCHANGED <<relief_mesh, failed_at, why>>
    /\ pc' = "relief_done"
    /\ UNCHANGED <<inputs, reported, ran, processed_heightmap, preprocess_error, rotations,
                   mesher_input,
                   hmm_runs, hmm_outcome, loaded, created, combine_vars,
                   output_file, result, outside_pipeline>>

\* lines 70-71: base_height = thickness - relief_depth; base_height <= 0
BaseHeight(p) == Sub(p.thickness, p.relief_depth)
BaseHeightInvalid(p) == Le(BaseHeight(p), ZERO)

\* lines 366-399: the solids _create_coin_shape can return for a positive
\* height: a non-empty primitive
CoinShapeSolids == {s \in Solids : s.status = NoError /\ s.nvert > 0}

\* lines 56-75: relief check, progress 80, base-height validation, base shape
CheckRelief ==
    /\ pc = "relief_done"
    /\ \E raises \in SinkRaises, shape_raises \in BOOLEAN, base \in CoinShapeSolids :
        IF relief_mesh = None
        THEN /\ Return(ReliefFailureResult(why), failed_at, why)
             /\ UNCHANGED <<reported, ran, base_coin>>
        ELSE IF raises
        THEN /\ Except("validate", "sink_raised")
             /\ UNCHANGED <<reported, ran, base_coin>>
        ELSE /\ reported' = Report(80)
             /\ IF BaseHeightInvalid(cp)
                THEN /\ ran' = ran \cup {"validate"}
                     /\ Return(BaseHeightResult(BaseHeight(cp), cp.thickness,
                                                cp.relief_depth),
                               "validate", "base_height")
                     /\ UNCHANGED base_coin
                ELSE /\ ran' = ran \cup {"validate", "shape"}
                     /\ IF shape_raises /\ cp.shape.value # "square"
                        THEN \* only the square arm catches (lines 374-392)
                             /\ Except("shape", "shape_failed")
                             /\ UNCHANGED base_coin
                        ELSE /\ base_coin' = base
                             /\ pc' = "combine"
                             /\ UNCHANGED <<result, failed_at, why>>
    /\ UNCHANGED <<inputs, relief_vars, disk_vars, final_mesh, strategies,
                   strategyA_outcome, total_thickness, intersection,
                   output_file, outside_pipeline>>

\* lines 438-452: does the clipped relief send Strategy A to the fallback?
ClipFallsBack(clipped) == clipped.nvert = 0

\* lines 466-478: is the union of Strategy A accepted?
UnionAccepted(union, base) ==
    /\ union.status = NoError
    /\ union.nvert > base.nvert

\* lines 517-527 and 536-546 without the num_vert() == 0 tests
AlternativeUsable_Unchecked(m) == TRUE

\* lines 517-527 and 536-546: is a boolean result of Strategy B usable?
AlternativeUsable(m) == m.nvert # 0

\* lines 412-485: how Strategy A ends.  An exception anywhere inside is
\* caught at line 483.
StrategyAOutcome(lib_raises, clipped, union, base) ==
    IF lib_raises THEN "raised"
    ELSE IF ClipFallsBack(clipped) THEN "empty_clip"
    ELSE IF ~UnionAccepted(union, base) THEN "union_rejected"
    ELSE "accepted"

\* lines 443, 450, 470, 476: the outcomes after which Strategy A calls
\* _alternative_intersection_approach
SignalsFallback(outcome) == outcome \in {"empty_clip", "union_rejected"}

\* lines 444, 451, 471, 477 with base_height alone as the argument
TotalThickness_BaseOnly(p) == BaseHeight(p)

\* lines 444, 451, 471, 477: the total_thickness argument of Strategy B
TotalThickness(p) == Add(BaseHeight(p), p.relief_depth)

\* lines 77-88 and 401-485: progress 85, Strategy A (clip and stack)
CombineA ==
    /\ pc = "combine"
    /\ \E raises \in SinkRaises, lib_raises \in BOOLEAN,
          clipped \in Solids, union \in Solids :
        IF raises
        THEN /\ Except("strategyA", "sink_raised")
             /\ UNCHANGED <<reported, ran, final_mesh, strategies,
                            strategyA_outcome, total_thickness>>
        ELSE LET outcome == StrategyAOutcome(lib_raises, clipped, union, base_coin)
             IN  /\ reported' = Report(85)
                 /\ ran' = ran \cup {"strategyA"}
                 /\ strategies' = Append(strategies, "A")
                 /\ strategyA_outcome' = outcome
                 /\ IF SignalsFallback(outcome)
                    THEN /\ pc' = "alternative"
                         /\ total_thickness' = TotalThickness(cp)
                         /\ UNCHANGED <<final_mesh, result, failed_at, why>>
                    ELSE IF outcome = "accepted"
                    THEN /\ final_mesh' = union
                         /\ pc' = "export"
                         /\ UNCHANGED <<total_thickness, result, failed_at, why>>
                    ELSE \* line 485: None, then lines 85-88
                         /\ Return(CombineFailureResult, "strategyA", "combine_failed")
                         /\ UNCHANGED <<final_mesh, total_thickness>>
    /\ UNCHANGED <<inputs, relief_vars, disk_vars, base_coin, intersection,
                   output_file, outside_pipeline>>

\* lines 496-553: how far Strategy B gets.  An exception is caught at line
\* 551; an unusable extension returns None at lines 522 and 527 before the
\* intersection is computed.
IntersectionComputed(lib_raises, extended) ==
    ~lib_raises /\ AlternativeUsable(extended)

\* lines 487-553 and 85-88: Strategy B (extend and intersect)
CombineB ==
    /\ pc = "alternative"
    /\ ran' = ran \cup {"strategyB"}
    /\ strategies' = Append(strategies, "B")
    /\ \E lib_raises \in BOOLEAN, extended \in Solids, xor \in Solids :
        IF ~IntersectionComputed(lib_raises, extended)
        THEN /\ Return(CombineFailureResult, "strategyB", "combine_failed")
             /\ UNCHANGED <<final_mesh, intersection>>
        ELSE /\ intersection' = xor
             /\ IF ~AlternativeUsable(xor)
                THEN /\ Return(CombineFailureResult, "strategyB", "combine_failed")
                     /\ UNCHANGED final_mesh
                ELSE /\ final_mesh' = xor
                     /\ pc' = "export"
                     /\ UNCHANGED <<result, failed_at, why>>
    /\ UNCHANGED <<inputs, reported, relief_vars, disk_vars, base_coin,
                   strategyA_outcome, total_thickness, output_file,
                   outside_pipeline>>

\* outcomes of lines 94-103: everything worked; to_mesh / numpy / Trimesh
\* raised before the file was opened; the write raised part-way
ExportOutcomes == {"ok", "raises_before_write", "raises_during_write"}

\* lines 90-109: progress 90, conversion, export to output_path, progress 95
Export ==
    /\ pc = "export"
    /\ \E raises90 \in SinkRaises, outcome \in ExportOutcomes,
          partial \in PartialFiles, raises95 \in SinkRaises :
        IF raises90
        THEN /\ Except("export", "sink_raised")
             /\ UNCHANGED <<reported, ran, output_file>>
        ELSE /\ ran' = ran \cup {"export"}
             /\ IF outcome = "raises_before_write"
                THEN /\ Except("export", "export_failed")
                     /\ reported' = Report(90)
                     /\ UNCHANGED output_file
                ELSE IF outcome = "raises_during_write"
                THEN /\ Except("export", "export_failed")
                     /\ reported' = Report(90)
                     /\ output_file' = partial
                ELSE /\ output_file' = StlFile(final_mesh.ntri)
                     /\ IF raises95
                        THEN /\ Except("export", "sink_raised")
                             /\ reported' = Report(90)
                        ELSE /\ Return(ReturnSuccess, "export", "")
                             /\ reported' = (IF sink = "none" THEN reported
                                             ELSE reported \o <<90, 95>>)
    /\ UNCHANGED <<inputs, relief_vars, disk_vars, combine_vars, outside_pipeline>>

\* ========================================================== CoinParameters
\* values a caller may pass for a length, a scale, a shape
LengthInputs == {NaN, F(0), F(1), F(100), F(300)}
ScaleInputs == {NaN, F(1), F(10000000)}
ShapeInputs == {EnumShape(s) : s \in CoinShape}
                   \cup {StrShape("circle"), StrShape("star")}
ParamInputs ==
    {[DefaultParams EXCEPT !.shape = s, !.diameter = d, !.thickness = t,
                           !.relief_depth = r, !.scale = k] :
        s \in ShapeInputs, d \in LengthInputs, t \in LengthInputs,
        r \in LengthInputs, k \in ScaleInputs}
FieldNames == {"diameter", "thickness", "relief_depth", "scale"}

\* models.py lines 94-105: __post_init__ raises ValueError
PostInitRaises(p) ==
    \/ Le(p.diameter, MIN_DIMENSION)
    \/ Le(p.thickness, MIN_DIMENSION)
    \/ Le(p.relief_depth, MIN_DIMENSION)
    \/ Ge(p.relief_depth, p.thickness)
    \/ Le(p.scale, MIN_SCALE)

\* models.py lines 82-105: CoinParameters(**p)
Construct(p) ==
    /\ pc = "idle"
    /\ IF PostInitRaises(p)
       THEN ctor_raised' = TRUE /\ UNCHANGED obj
       ELSE ctor_raised' = FALSE /\ obj' = [exists |-> TRUE, fields |-> p]
    /\ setattr_raised' = FALSE
    /\ UNCHANGED <<pipeline_vars, conc_vars, queue_vars, task_vars, other_vars>>

\* models.py line 82: the dataclass is frozen, obj.field = v raises
\* FrozenInstanceError and assigns nothing
SetAttr(field, v) ==
    /\ pc = "idle"
    /\ obj.exists
    /\ setattr_raised' = TRUE
    /\ UNCHANGED <<obj, ctor_raised, pipeline_vars, conc_vars, queue_vars, task_vars, other_vars>>

\* ================================================= concurrent invocations
\* coin_generation_service.py lines 137-151: validate_parameters (always
\* True), the heightmap lookup, stl_path = <dir>/<generation_id>/coin.stl,
\* then the call of the generator.  A worker takes its next task when the
\* previous one has returned.
ServiceGenerateStl(w, g) ==
    /\ job[w].pc \in {"idle", "done"}
    /\ \E found \in BOOLEAN :
        job' = [job EXCEPT ![w] =
                  IF found
                  THEN [IdleJob EXCEPT !.pc = "pipeline", !.gid = g]
                  ELSE \* line 145: ValidationError
                       [IdleJob EXCEPT !.pc = "done", !.gid = g,
                                       !.result = Raised,
                                       !.at_return = stl_files[g]]]
    /\ UNCHANGED <<stl_files, pipeline_vars, param_vars, queue_vars, task_vars, other_vars>>

\* hmm_manifold_generator.py lines 35-88: everything before the export works
\* on objects and uniquely named temporary files of this invocation; it ends
\* in a failure pair or in a final solid with n triangles.
PipelineUntilExport(w) ==
    /\ job[w].pc = "pipeline"
    /\ \/ \E m \in {MsgReliefFailed, MsgCombineFailed, MsgException} :
            job' = [job EXCEPT ![w].pc = "done", ![w].result = Pair(FALSE, m),
                               ![w].at_return = stl_files[job[w].gid]]
       \/ \E n \in 1..MaxJobTris :
            job' = [job EXCEPT ![w].pc = "export", ![w].tris = n]
    /\ UNCHANGED <<stl_files, pipeline_vars, param_vars, queue_vars, task_vars, other_vars>>

\* lines 94-103: conversion, then export() opens output_path for writing
ExportOpen(w) ==
    /\ job[w].pc = "export"
    /\ \E ok \in BOOLEAN :
        IF ok
        THEN /\ stl_files' = [stl_files EXCEPT ![job[w].gid] = TruncatedFile]
             /\ job' = [job EXCEPT ![w].pc = "writing"]
        ELSE /\ job' = [job EXCEPT ![w].pc = "done", ![w].result = OuterExcept,
                                   ![w].at_return = stl_files[job[w].gid]]
             /\ UNCHANGED stl_files
    /\ UNCHANGED <<pipeline_vars, param_vars, queue_vars, task_vars, other_vars>>

\* line 103: export() writes the bytes of this invocation's solid and closes
ExportWrite(w) ==
    /\ job[w].pc = "writing"
    /\ \E ok \in BOOLEAN, partial \in PartialFiles :
        IF ok
        THEN /\ stl_files' = [stl_files EXCEPT ![job[w].gid] = StlFile(job[w].tris)]
             /\ job' = [job EXCEPT ![w].pc = "written"]
        ELSE /\ stl_files' = [stl_files EXCEPT ![job[w].gid] = partial]
             /\ job' = [job EXCEPT ![w].pc = "done", ![w].result = OuterExcept,
                                   ![w].at_return = partial]
    /\ UNCHANGED <<pipeline_vars, param_vars, queue_vars, task_vars, other_vars>>

\* lines 104-109: log, progress 95, return (True, None)
ExportReturn(w) ==
    /\ job[w].pc = "written"
    /\ job' = [job EXCEPT ![w].pc = "done", ![w].result = ReturnSuccess,
                          ![w].at_return = stl_files[job[w].gid]]
    /\ UNCHANGED <<stl_files, pipeline_vars, param_vars, queue_vars, task_vars, other_vars>>

\* ============================================================== task queue
\* max_retries values handed to enqueue
RetryLimits == {1, MAX_RETRIES}
\* how enqueue ends: the job is scheduled, the task name is not registered,
\* add_job / delay raises
EnqueueOutcomes == {"scheduled", "not_registered", "add_job_raises"}
\* how one execution of generate_stl_task_func ends (task_functions.py
\* lines 119-164): it returns its dictionary, raises ProcessingError, or
\* raises RetryableError (every other exception is wrapped into one)
TaskOutcomes == {"returns", "ProcessingError", "RetryableError"}

\* apscheduler_task_queue.py lines 82-152 and celery_task_queue.py lines
\* 43-86: enqueue.  Celery tasks carry their own max_retries (tasks.py line
\* 63) and a failing enqueue raises without storing anything.
Enqueue(t, backend, mr, outcome) ==
    /\ tasks[t].status = "NONE"
    /\ IF outcome = "scheduled"
       THEN /\ tasks' = [tasks EXCEPT ![t] =
                   [NoTask EXCEPT !.status = "PENDING", !.backend = backend,
                       !.enqueue = outcome,
                       !.max_retries =
                           (IF backend = "celery" THEN MAX_RETRIES ELSE mr)]]
            /\ scheduled' = scheduled \cup
                                {[task |-> t, retry_count |-> 0, delay |-> 0]}
       ELSE /\ backend = "apscheduler"
            /\ tasks' = [tasks EXCEPT ![t] =
                   [NoTask EXCEPT !.status = "FAILURE", !.backend = backend,
                                  !.enqueue = outcome,
                                  !.max_retries = mr]]
            /\ UNCHANGED scheduled
    /\ UNCHANGED <<pipeline_vars, param_vars, conc_vars, task_vars, other_vars>>

\* apscheduler_task_queue.py lines 176-201 (tasks.py lines 64-90): the job
\* starts in a worker, the status becomes PROCESSING, the task function is
\* called
ExecuteTaskStart(t, rc) ==
    /\ \E j \in scheduled :
        /\ j.task = t /\ j.retry_count = rc
        /\ scheduled' = scheduled \ {j}
    /\ ~tasks[t].running
    /\ tasks' = [tasks EXCEPT ![t].status = "PROCESSING",
                              ![t].retry_count = rc,
                              ![t].running = TRUE]
    /\ UNCHANGED <<pipeline_vars, param_vars, conc_vars, task_vars, other_vars>>

\* apscheduler_task_queue.py lines 214-252: every exception is handled alike
APSchedulerOnException(exc, retry_count, max_retries) ==
    IF retry_count < max_retries THEN "RETRY" ELSE "FAILURE"

\* tasks.py lines 92-105: ProcessingError is re-raised, RetryableError goes
\* through self.retry until max_retries is reached
CeleryOnException(exc, retries, max_retries) ==
    IF exc = "ProcessingError" THEN "FAILURE"
    ELSE IF retries < max_retries THEN "RETRY"
    ELSE "FAILURE"

\* apscheduler_task_queue.py line 221 (tasks.py line 98): exponential backoff
RetryDelayActual_Linear(retry_delay, retry_count) == retry_delay * (retry_count + 1)
RetryDelayActual(retry_delay, retry_count) == retry_delay * (2 ^ retry_count)

\* apscheduler_task_queue.py lines 236-243 (tasks.py lines 96-100): the job
\* added for the retry after the attempt with this retry_count
RetryJob_NotScheduled(t, retry_count) == {}
RetryJob(t, retry_count) ==
    {[task |-> t, retry_count |-> retry_count + 1,
      delay |-> RetryDelayActual(RETRY_DELAY, retry_count)]}

\* apscheduler_task_queue.py lines 201-252 (tasks.py lines 88-108): the task
\* function returns or raises; the result is stored, a retry job is added
ExecuteTaskFinish(t, outcome) ==
    /\ tasks[t].running
    /\ LET rc == tasks[t].retry_count
           status == IF outcome = "returns" THEN "SUCCESS"
                     ELSE IF tasks[t].backend = "celery"
                     THEN CeleryOnException(outcome, rc, tasks[t].max_retries)
                     ELSE APSchedulerOnException(outcome, rc, tasks[t].max_retries)
       IN  /\ tasks' = [tasks EXCEPT
                   ![t].status = status,
                   ![t].running = FALSE,
                   ![t].executions = @ + 1,
                   ![t].last_exc = (IF outcome = "returns" THEN "" ELSE outcome)]
           /\ scheduled' = (IF status = "RETRY"
                            THEN scheduled \cup RetryJob(t, rc)
                            ELSE scheduled)
    /\ UNCHANGED <<pipeline_vars, param_vars, conc_vars, task_vars, other_vars>>

\* apscheduler_task_queue.py lines 254-266 and task_queue.py lines 66-73:
\* ProgressCallback.update, called by the running task function, stores
\* status PROCESSING with the progress data
UpdateTaskProgress(t) ==
    /\ tasks[t].backend = "apscheduler"
    /\ tasks[t].running
    /\ tasks' = [tasks EXCEPT ![t].status = "PROCESSING"]
    /\ UNCHANGED <<scheduled, pipeline_vars, param_vars, conc_vars, task_vars,
                   other_vars>>

\* apscheduler_task_queue.py lines 281-318: remove_job(task_id) removes the
\* job whose id is task_id (the first one; a retry job has the id
\* <task_id>_retry_<n>), then a PENDING, PROCESSING or RETRY result becomes
\* FAILURE 'Task was cancelled'
CancelTask(t) ==
    /\ tasks[t].backend = "apscheduler"
    /\ scheduled' = {j \in scheduled : ~(j.task = t /\ j.retry_count = 0)}
    /\ IF tasks[t].status \in {"PENDING", "PROCESSING", "RETRY"}
       THEN tasks' = [tasks EXCEPT ![t].status = "FAILURE",
                                   ![t].cancelled = TRUE]
       ELSE UNCHANGED tasks
    /\ UNCHANGED <<pipeline_vars, param_vars, conc_vars, task_vars, other_vars>>

\* ========================================================== specifications
Next ==
    \/ \E p \in PipelineParams, img \in Heightmaps, s \in Sinks : GenerateStl(p, img, s)
    \/ \E p \in DictParams, img \in Heightmaps, s \in TaskSinks : TaskFuncCall(p, img, s)
    \/ TaskFuncReturn
    \/ WhichHmm
    \/ Preprocess
    \/ CreateTempStl
    \/ RunHmm
    \/ LoadMesh
    \/ Transform
    \/ Cleanup
    \/ CheckRelief
    \/ CombineA
    \/ CombineB
    \/ Export

Spec == Init /\ [][Next]_vars

\* ======================================================= relief transform
\* one run of lines 239-284 on a loaded relief
ApplyTransform(in) ==
    /\ xf = NoTransform
    /\ xf' = TransformRelief(in)
    /\ UNCHANGED <<core_vars, limiter_vars, app_vars>>

NextTransform == \E in \in TransformInputs : ApplyTransform(in)

SpecTransform == Init /\ [][NextTransform]_vars

\* =========================================================== rate limiter
\* memory_rate_limiter.py lines 80-91: drop the timestamps older than one
\* hour from the left of the deque
RECURSIVE PruneOld(_, _)
PruneOld(timestamps, current_time) ==
    IF timestamps # <<>> /\ Head(timestamps) < current_time - ONE_HOUR
    THEN PruneOld(Tail(timestamps), current_time)
    ELSE timestamps

\* lines 75-78: _check_hourly_limit on the pruned deque
CheckHourlyLimit(timestamps, hourly_limit) == Len(timestamps) < hourly_limit
\* lines 94-98: _check_concurrent_limit
CheckConcurrentLimit(current_count, concurrent_limit) ==
    current_count < concurrent_limit

\* time.time() moves on
Tick ==
    /\ now + TickSeconds <= MaxClock
    /\ now' = now + TickSeconds
    /\ UNCHANGED <<hourly_data, concurrent_data, call, heightmap_files,
                   record_log, core_vars, transform_vars, app_vars>>

\* coin_generation_service.py lines 53-58 and memory_rate_limiter.py lines
\* 29-49: is_allowed under the lock, RateLimitError when it refuses, else a
\* fresh generation id
IsAllowed(c) ==
    /\ call[c].pc \in {"idle", "done"}
    /\ LET pruned == PruneOld(hourly_data, now)
           allowed == /\ CheckHourlyLimit(pruned, MaxGenerationsPerHour)
                      /\ CheckConcurrentLimit(concurrent_data,
                                              MaxConcurrentGenerations)
       IN  /\ hourly_data' = pruned
           /\ call' = [call EXCEPT ![c] =
                  IF allowed THEN [pc |-> "allowed", outcome |-> ""]
                  ELSE [pc |-> "done", outcome |-> "RateLimitError"]]
    /\ heightmap_files' = [heightmap_files EXCEPT ![c] = "none"]
    /\ UNCHANGED <<now, concurrent_data, record_log, core_vars, transform_vars, app_vars>>

\* coin_generation_service.py lines 60-63 and 74-77, file_storage.py lines
\* 21-44: save_file writes heightmap.png; an exception is wrapped into
\* ProcessingError and what was written stays
SaveFile(c) ==
    /\ call[c].pc = "allowed"
    /\ \E written \in {"stored", "partial", "none"} :
        /\ heightmap_files' = [heightmap_files EXCEPT ![c] = written]
        /\ call' = [call EXCEPT ![c] =
               IF written = "stored" THEN [pc |-> "saved", outcome |-> ""]
               ELSE [pc |-> "done", outcome |-> "ProcessingError"]]
    /\ UNCHANGED <<now, hourly_data, concurrent_data, record_log, core_vars,
                   transform_vars, app_vars>>

\* file_storage.py lines 51-64: delete_file; an OSError of unlink is
\* swallowed and False is returned
DeleteFile(file, unlink_raises) == IF unlink_raises THEN file ELSE "none"

\* coin_generation_service.py lines 65-68: validate_image; for an invalid
\* image delete_file, then ValidationError
ValidateImage(c) ==
    /\ call[c].pc = "saved"
    /\ \E valid \in BOOLEAN, unlink_raises \in BOOLEAN :
        IF valid
        THEN /\ call' = [call EXCEPT ![c].pc = "validated"]
             /\ UNCHANGED heightmap_files
        ELSE /\ heightmap_files' = [heightmap_files EXCEPT
                     ![c] = DeleteFile(heightmap_files[c], unlink_raises)]
             /\ call' = [call EXCEPT ![c] =
                    [pc |-> "done", outcome |-> "ValidationError"]]
    /\ UNCHANGED <<now, hourly_data, concurrent_data, record_log, core_vars,
                   transform_vars, app_vars>>

\* coin_generation_service.py lines 70-73 and memory_rate_limiter.py lines
\* 51-62: record_operation under the lock, then the id is returned
RecordOperation(c) ==
    /\ call[c].pc = "validated"
    /\ hourly_data' = Append(hourly_data, now)
    /\ concurrent_data' = concurrent_data + 1
    /\ record_log' = Append(record_log, now)
    /\ call' = [call EXCEPT ![c] = [pc |-> "done", outcome |-> "generation_id"]]
    /\ UNCHANGED <<now, heightmap_files, core_vars, transform_vars, app_vars>>

NextLimiter ==
    \/ Tick
    \/ \E c \in Callers : IsAllowed(c)
    \/ \E c \in Callers : SaveFile(c)
    \/ \E c \in Callers : ValidateImage(c)
    \/ \E c \in Callers : RecordOperation(c)

SpecLimiter == Init /\ [][NextLimiter]_vars

\* ========================================================= app lifecycle
\* task_functions.py lines 232-236: TASK_FUNCTIONS
TASK_FUNCTION_NAMES ==
    {"process_image_task", "generate_stl_task", "cleanup_old_files_task"}
\* services other than the task queue that the container creates on demand
\* (service_container.py lines 31-43)
OtherServices == {"file_storage", "image_processor"}
\* the lifecycle methods each task queue class defines
\* (apscheduler_task_queue.py lines 71, 320, 327, 334;
\*  celery_task_queue.py lines 174, 183, 192)
QueueAttrs(kind) ==
    IF kind = "apscheduler"
    THEN {"register_task", "start", "stop", "is_running"}
    ELSE {"start", "stop", "is_running"}
\* hasattr(obj, name)
HasAttr(q, name) == name \in QueueAttrs(q.kind)
\* a freshly constructed task queue (apscheduler_task_queue.py lines 66-68)
NewQueue(kind) == [kind |-> kind, is_running |-> FALSE, registry |-> {}]
\* APSchedulerTaskQueue.start (lines 320-325); CeleryTaskQueue.start only logs
QueueStart(q) ==
    IF q.kind = "apscheduler" /\ ~q.is_running
    THEN [q EXCEPT !.is_running = TRUE] ELSE q
\* APSchedulerTaskQueue.stop (lines 327-332); CeleryTaskQueue.stop only logs
QueueStop(q) ==
    IF q.kind = "apscheduler" /\ q.is_running
    THEN [q EXCEPT !.is_running = FALSE] ELSE q
\* load_config of the subclasses (web_app.py lines 31-35): settings are
\* created only when none were given
LoadConfig(st, use_celery) ==
    IF st.loaded THEN st ELSE [loaded |-> TRUE, use_celery |-> use_celery]
\* ServiceContainer.get_task_queue (service_container.py lines 67-74): the
\* container and the queue objects afterwards
GetTaskQueue(svc, queues, use_celery) ==
    IF "task_queue" \in svc.names
    THEN [services |-> svc, queues |-> queues]
    ELSE [services |-> [svc EXCEPT !.names = @ \cup {"task_queue"},
                                   !.task_queue = Len(queues) + 1],
          queues |-> Append(queues,
              NewQueue(IF use_celery THEN "celery" ELSE "apscheduler"))]
\* ServiceContainer.initialize_task_queue (service_container.py lines 96-114)
InitializeTaskQueue(svc, queues, use_celery) ==
    IF ~use_celery
    THEN LET got == GetTaskQueue(svc, queues, use_celery)
             i == got.services.task_queue
             q == got.queues[i]
         IN  IF HasAttr(q, "register_task")
             THEN [got EXCEPT !.queues[i] =
                      QueueStart([q EXCEPT !.registry = TASK_FUNCTION_NAMES])]
             ELSE got
    ELSE [services |-> svc, queues |-> queues]
\* BaseApp._shutdown_task_queue (base_app.py lines 145-158): shutdown() is
\* called on the queue only if the queue has such an attribute
ShutdownTaskQueue(svc, queues, use_celery) ==
    IF ~svc.exists THEN [services |-> svc, queues |-> queues]
    ELSE LET got == GetTaskQueue(svc, queues, use_celery)
             i == got.services.task_queue
             q == got.queues[i]
         IN  IF HasAttr(q, "shutdown")
             THEN [got EXCEPT !.queues[i] = QueueStop(q)]
             ELSE got

\* BaseApp.initialize (base_app.py lines 50-71)
AppInitialize(use_celery) ==
    /\ is_initialized \/ Len(task_queues) < MaxAppQueues
    /\ last_op' = "initialize"
    /\ IF is_initialized
       THEN UNCHANGED <<settings, services, is_initialized, is_running,
                        task_queues>>
       ELSE LET st == LoadConfig(settings, use_celery)
                container == [exists |-> TRUE, names |-> {}, task_queue |-> 0]
                tq == InitializeTaskQueue(container, task_queues, st.use_celery)
            IN  /\ settings' = st
                /\ services' = tq.services
                /\ task_queues' = tq.queues
                /\ is_initialized' = TRUE
                /\ UNCHANGED is_running
    /\ UNCHANGED <<core_vars, transform_vars, limiter_vars>>

\* BaseApp.shutdown (base_app.py lines 82-98); _cleanup_services (lines
\* 129-143) calls cleanup() on the services that have one, and none has
AppShutdown ==
    /\ last_op' = "shutdown"
    /\ IF ~is_initialized
       THEN UNCHANGED <<settings, services, is_initialized, is_running,
                        task_queues>>
       ELSE LET tq == ShutdownTaskQueue(services, task_queues,
                                        settings.use_celery)
            IN  /\ services' = tq.services
                /\ task_queues' = tq.queues
                /\ is_running' = FALSE
                /\ is_initialized' = FALSE
                /\ UNCHANGED settings
    /\ UNCHANGED <<core_vars, transform_vars, limiter_vars>>

\* WebApp.run up to the blocking uvicorn.run (web_app.py lines 72-94);
\* RuntimeError on an app that is not initialized
AppRun ==
    /\ last_op' = "run"
    /\ is_running' = IF is_initialized THEN TRUE ELSE is_running
    /\ UNCHANGED <<settings, services, is_initialized, task_queues>>
    /\ UNCHANGED <<core_vars, transform_vars, limiter_vars>>

\* WebApp.run after the server returned (web_app.py lines 96-102)
AppRunReturn ==
    /\ is_running
    /\ last_op' = "run_return"
    /\ is_running' = FALSE
    /\ UNCHANGED <<settings, services, is_initialized, task_queues>>
    /\ UNCHANGED <<core_vars, transform_vars, limiter_vars>>

\* a request handler asks the container for a service
\* (service_container.py lines 31-43 and 67-74)
GetService(name) ==
    /\ services.exists
    /\ last_op' = "get_service"
    /\ IF name = "task_queue"
       THEN LET got == GetTaskQueue(services, task_queues, settings.use_celery)
            IN  services' = got.services /\ task_queues' = got.queues
       ELSE /\ services' = [services EXCEPT !.names = @ \cup {name}]
            /\ UNCHANGED task_queues
    /\ UNCHANGED <<settings, is_initialized, is_running>>
    /\ UNCHANGED <<core_vars, transform_vars, limiter_vars>>

\* stop() called on a task queue object
StopTaskQueue(i) ==
    /\ i \in 1..Len(task_queues)
    /\ last_op' = "stop"
    /\ task_queues' = [task_queues EXCEPT ![i] = QueueStop(@)]
    /\ UNCHANGED <<settings, services, is_initialized, is_running>>
    /\ UNCHANGED <<core_vars, transform_vars, limiter_vars>>

NextApp ==
    \/ \E use_celery \in BOOLEAN : AppInitialize(use_celery)
    \/ AppShutdown
    \/ AppRun
    \/ AppRunReturn
    \/ \E name \in OtherServices \cup {"task_queue"} : GetService(name)
    \/ \E i \in 1..MaxAppQueues : StopTaskQueue(i)

SpecApp == Init /\ [][NextApp]_vars

NextParams ==
    \/ \E p \in ParamInputs : Construct(p)
    \/ \E f \in FieldNames, v \in LengthInputs : SetAttr(f, v)

SpecParams == Init /\ [][NextParams]_vars

NextConc ==
    \/ \E w \in Workers, g \in GenerationIds : ServiceGenerateStl(w, g)
    \/ \E w \in Workers : PipelineUntilExport(w)
    \/ \E w \in Workers : ExportOpen(w)
    \/ \E w \in Workers : ExportWrite(w)
    \/ \E w \in Workers : ExportReturn(w)

SpecConc == Init /\ [][NextConc]_vars

NextQueue ==
    \/ \E t \in TaskIds, b \in Backends, mr \in RetryLimits,
          o \in EnqueueOutcomes : Enqueue(t, b, mr, o)
    \/ \E t \in TaskIds, rc \in 0..MAX_RETRIES : ExecuteTaskStart(t, rc)
    \/ \E t \in TaskIds, o \in TaskOutcomes : ExecuteTaskFinish(t, o)
    \/ \E t \in TaskIds : UpdateTaskProgress(t)
    \/ \E t \in TaskIds : CancelTask(t)

SpecQueue == Init /\ [][NextQueue]_vars

\* The scheduler keeps running: a job it holds is started by a worker; an
\* execution of the task function returns or raises.
SpecQueueFair ==
    /\ SpecQueue
    /\ \A t \in TaskIds :
        /\ WF_vars(\E rc \in 0..MAX_RETRIES : ExecuteTaskStart(t, rc))
        /\ WF_vars(\E o \in TaskOutcomes : ExecuteTaskFinish(t, o))

\* ================================================================== claims
CombinationAndExport == {"strategyA", "strategyB", "export"}
Names(msg, x) == \E i \in DOMAIN msg.values : msg.values[i] = x

\* C1: with relief_depth >= thickness generate_stl fails no later than the
\* combination step, its message names the thickness and the relief depth,
\* and nothing is written to output_path, whatever the earlier steps did
\* (stated for a CoinShape member as shape and a sink that does not raise).
C1_Claim ==
    (pc = "done" /\ Ge(cp.relief_depth, cp.thickness)
                 /\ cp.shape.enum /\ sink # "raises") =>
        /\ result.kind = "pair" /\ ~result.ok
        /\ Names(result.msg, cp.thickness)
        /\ Names(result.msg, cp.relief_depth)
        /\ ran \cap CombinationAndExport = {}
        /\ output_file = NoFile

C3_Claim ==
    (pc = "done" /\ ~unlink_failed) => temp_files = {}

\* C4: when the mesher is not found, exits non-zero, is killed or times out,
\* the invocation fails, the mesher is not run a second time, and none of
\* load, transform, shape construction, combination, export is executed.
C4_MesherFailureIsFatal ==
    /\ hmm_runs <= 1
    /\ hmm_outcome \in MesherFailures =>
        /\ ran \cap {"load", "transform", "shape", "strategyA", "strategyB",
                     "export"} = {}
        /\ pc \in {"cleanup", "relief_done", "done"}
        /\ pc = "done" => (result.kind = "pair" /\ ~result.ok)

\* C4 witness: the subprocess was killed and the invocation has returned
C4_Witness ==
    /\ pc = "done" /\ hmm_outcome = "killed" /\ hmm_runs = 1

\* C5: with the mesher binary absent the invocation fails with a message
\* that no other relief-generation failure produces, and no temporary file
\* remains.
C5_Claim ==
    (pc = "done" /\ hmm_outcome = "binary_not_found") =>
        /\ ~result.ok
        /\ temp_files = {}
        /\ \A other \in {"nonzero_exit", "timeout", "load_failed", "no_geometry"} :
               result.msg # ReliefFailureResult(other).msg

\* C6: a loaded mesh with zero vertices, whatever its status, makes the
\* invocation fail at the load; transform, combination and export never run.
C6_Claim ==
    ("load" \in ran /\ loaded # None /\ loaded.nvert = 0) =>
        /\ ran \cap ({"transform"} \cup CombinationAndExport) = {}
        /\ pc \notin {"transform", "combine", "alternative", "export"}
        /\ pc = "done" => ~result.ok

\* C7: after a failed invocation no file exists at output_path.
C7_Claim ==
    (pc = "done" /\ ~result.ok) => output_file = NoFile

Min(a, b) == IF a <= b THEN a ELSE b

\* C9: a heightmap whose longest side exceeds 2048 reaches the mesher only
\* as a resized copy: longest side 2048, shorter side
\* floor(2048 * min / max) >= 1, never the original (stated for runs in
\* which opening the image, creating the temp file and saving all work).
C9_Claim ==
    ("mesher" \in ran /\ Max(heightmap.w, heightmap.h) > IMAGE_RESIZE_TARGET
                      /\ preprocess_error \notin {"open", "tempfile", "save"}) =>
        /\ mesher_input.path # "orig"
        /\ Max(mesher_input.w, mesher_input.h) = IMAGE_RESIZE_TARGET
        /\ Min(mesher_input.w, mesher_input.h) =
               (IMAGE_RESIZE_TARGET * Min(heightmap.w, heightmap.h))
                   \div Max(heightmap.w, heightmap.h)
        /\ Min(mesher_input.w, mesher_input.h) >= 1

\* C10: every CoinParameters object that exists has diameter > 0.01,
\* thickness > 0.01, relief_depth > 0.01, scale > 0.00001 and
\* relief_depth < thickness.
C10_Claim ==
    obj.exists =>
        /\ Gt(obj.fields.diameter, MIN_DIMENSION)
        /\ Gt(obj.fields.thickness, MIN_DIMENSION)
        /\ Gt(obj.fields.relief_depth, MIN_DIMENSION)
        /\ Gt(obj.fields.scale, MIN_SCALE)
        /\ Lt(obj.fields.relief_depth, obj.fields.thickness)

\* C11: the progress sink is observational.  The step at which an
\* invocation stops and the pair it returns are decided by the heightmap,
\* the parameters and the collaborators other than the sink: no invocation
\* ends because its sink raised.
C11_Claim ==
    pc = "done" => why # "sink_raised"

\* C12: concurrent invocations share no mutable state.  When an invocation
\* returns (True, None), the file at its output path is the complete export
\* of its own final solid, as it is when the invocation runs alone, whatever
\* generation id the other worker is processing.
C12_Claim ==
    \A w \in Workers :
        (job[w].pc = "done" /\ job[w].result = ReturnSuccess) =>
            job[w].at_return = StlFile(job[w].tris)

\* C13: a task whose function raised ProcessingError is not retried: its
\* status is FAILURE (never RETRY), no further job is scheduled for it and
\* its function is not executed again, on either backend.
C13_Claim ==
    \A t \in TaskIds :
        tasks[t].last_exc = "ProcessingError" =>
            /\ tasks[t].status = "FAILURE"
            /\ ~tasks[t].running
            /\ \A j \in scheduled : j.task # t

\* C14: the union of Strategy A is the final solid only if the clipped
\* relief is non-empty, the union has status NoError and the union has more
\* vertices than the base solid; after every other outcome of Strategy A
\* (empty clip, rejected union, an exception inside Strategy A) Strategy B
\* is invoked.
C14_Claim ==
    /\ (strategies = <<"A">> /\ final_mesh # None) =>
        /\ strategyA_outcome = "accepted"
        /\ final_mesh.status = NoError
        /\ final_mesh.nvert > base_coin.nvert
    /\ (strategyA_outcome \in {"empty_clip", "union_rejected", "raised"}
            /\ pc # "alternative") =>
        strategies = <<"A", "B">>

\* C15: when the intersection of Strategy B has zero vertices, with or
\* without an error status, the combiner returns no solid and the invocation
\* fails with the combination message, nothing being exported; when it has
\* vertices it is the final solid; Strategy B is invoked with total height
\* base_height + relief_depth, which is the thickness.
C15_StrategyBResult ==
    /\ (intersection # None /\ intersection.nvert = 0) =>
        /\ final_mesh = None
        /\ pc = "done"
        /\ result = CombineFailureResult
        /\ "export" \notin ran
        /\ output_file = NoFile
    /\ (intersection # None /\ intersection.nvert # 0) =>
        /\ final_mesh = intersection
        /\ pc \in {"export", "done"}
    /\ (pc = "alternative" \/ "strategyB" \in ran) =>
        /\ total_thickness = Add(BaseHeight(cp), cp.relief_depth)
        /\ total_thickness = cp.thickness

\* C15 witness: Strategy B ended with an empty intersection that also
\* carries an error status
C15_Witness ==
    /\ pc = "done"
    /\ strategies = <<"A", "B">>
    /\ intersection # None
    /\ intersection.nvert = 0 /\ intersection.status # NoError

\* C16: inside one invocation nothing is retried: the mesher subprocess
\* runs at most once, Strategy A at most once, Strategy B at most once and
\* only after Strategy A ran and signalled fallback, and Strategy A is not
\* entered again after either strategy ran.
C16_NoStepRetried ==
    /\ hmm_runs <= 1
    /\ strategies \in {<<>>, <<"A">>, <<"A", "B">>}
    /\ strategies = <<"A", "B">> => SignalsFallback(strategyA_outcome)
    /\ pc = "combine" => strategies = <<>>
    /\ pc = "alternative" => strategies = <<"A">>
    /\ "mesher" \in ran <=> hmm_runs = 1

\* C16 witness: a successful run that used the mesher once, Strategy A once
\* and Strategy B once
C16_Witness ==
    /\ pc = "done" /\ result.ok
    /\ hmm_runs = 1
    /\ strategies = <<"A", "B">>
    /\ strategyA_outcome = "empty_clip"

\* C17: with parameters that fail validation (relief_depth >= thickness, a
\* dimension that is not positive, a shape that is no CoinShape member) the
\* invocation neither starts the mesher subprocess nor creates a temporary
\* file.
C17_Claim ==
    (pc # "idle" /\ (PostInitRaises(cp) \/ ~cp.shape.enum
                                        \/ cp.shape.value \notin CoinShape)) =>
        /\ hmm_runs = 0
        /\ "mesher" \notin ran
        /\ created = {}

\* C18: a temporary file that cannot be deleted does not fail the
\* invocation: when the relief was generated and transformed and a deletion
\* in the cleanup raises, the relief is kept and the invocation goes on to
\* combination and export.
C18_Claim ==
    (unlink_failed /\ "transform" \in ran /\ loaded.nvert > 0
                   /\ why \in {"", "unlink_failed"}) =>
        /\ relief_mesh # None
        /\ failed_at # "cleanup"
        /\ pc = "done" => result # ReliefFailureResult(why)

\* C19: a shape outside {circle, square, hexagon, octagon} is refused when
\* CoinParameters is constructed: every CoinParameters object that exists
\* (with numbers as dimensions) has one of the four shapes.
C19_Claim ==
    (obj.exists /\ \A f \in FieldNames : ~obj.fields[f].nan) =>
        obj.fields.shape.value \in CoinShape

\* ------------------------------------------------------------------ C20
\* the checkpoints of the pipeline in report order: 10 by the task function
\* (task_functions.py line 132), 20..95 by the generator (lines 48, 154, 193,
\* 210, 237, 68, 79, 92, 107), 100 by the task function (line 148)
Checkpoints == <<10, 20, 25, 30, 60, 70, 80, 85, 90, 95, 100>>
\* the phase a checkpoint belongs to: 0 entry, 1 preprocessing, 2 mesher,
\* 3 mesh load, 4 transform, 5 shape, 6 combination, 7 export, 8 done
CheckpointPhase(pct) ==
    CASE pct \in {10, 20} -> 0
      [] pct = 25 -> 1
      [] pct = 30 -> 2
      [] pct = 60 -> 3
      [] pct = 70 -> 4
      [] pct = 80 -> 5
      [] pct = 85 -> 6
      [] pct \in {90, 95} -> 7
      [] OTHER -> 8
\* the phase of the step a run failed at
StepPhase(step) ==
    CASE step = "extract" -> 0
      [] step \in {"which", "preprocess"} -> 1
      [] step \in {"tempstl", "mesher"} -> 2
      [] step = "load" -> 3
      [] step \in {"transform", "cleanup"} -> 4
      [] step \in {"validate", "shape"} -> 5
      [] step \in {"strategyA", "strategyB"} -> 6
      [] OTHER -> 7
\* the run is over: generate_stl has returned and, when the task function
\* made the call, the task function has ended too
RunFinished == pc = "done" /\ task_pc \in {"", "returned"}
C20_InRange == \A i \in DOMAIN reported : reported[i] \in 0..100
C20_NonDecreasing ==
    \A i, j \in DOMAIN reported : i < j => reported[i] <= reported[j]
C20_CheckpointOrder ==
    /\ \A i \in DOMAIN reported :
           \E k \in DOMAIN Checkpoints : Checkpoints[k] = reported[i]
    /\ \A i, j \in DOMAIN reported : i < j => reported[i] < reported[j]
C20_EndsWithDone ==
    (RunFinished /\ result = ReturnSuccess /\ sink # "none")
        => (reported # <<>> /\ reported[Len(reported)] = 100)
C20_NothingAfterFailedStep ==
    (RunFinished /\ result # ReturnSuccess /\ failed_at # "")
        => \A i \in DOMAIN reported :
               CheckpointPhase(reported[i]) <= StepPhase(failed_at)
\* C20: with a progress sink the reported percentages lie in 0..100, never
\* decrease, follow the checkpoint order 20, 25, 30, 60, 70, 80, 85, 90, 95
\* and, in a successful run, end with 100; a failing run reports no
\* checkpoint of a phase after the one it failed in.
C20_Claim ==
    /\ C20_InRange
    /\ C20_NonDecreasing
    /\ C20_CheckpointOrder
    /\ C20_EndsWithDone
    /\ C20_NothingAfterFailedStep

\* ------------------------------------------------------------------ C21
\* C21: with scale_percent = 100 the XY bounding-box width of the relief the
\* transform returns equals coin_diameter, whatever the relief's bounding
\* box, the rotation and the offsets.
C21_Claim ==
    (xf.state = "returned" /\ xf.in.scale_percent = 100)
        => BoxWidth(xf.final) = xf.in.coin_diameter

\* ------------------------------------------------------------------ C22
\* the heightmap needs no resize (lines 319-325)
WithinSizeThreshold == Max(heightmap.w, heightmap.h) <= IMAGE_RESIZE_TARGET
\* C22: in a finished successful run on a readable heightmap the rotation
\* took effect exactly twice when rotation is not 0 (on the image, then on
\* the mesh, by the same angle) and not at all when it is 0, and then no
\* preprocessed copy was created for an image within the size threshold.
C22_Claim ==
    (pc = "done" /\ result = ReturnSuccess /\ preprocess_error # "open") =>
        IF Ne(cp.rotation, ZERO)
        THEN rotations = <<[by |-> "Image.rotate", angle |-> cp.rotation],
                           [by |-> "Manifold.rotate", angle |-> cp.rotation]>>
        ELSE /\ rotations = <<>>
             /\ WithinSizeThreshold =>
                    (processed_heightmap.path = "orig" /\ "png" \notin created)

\* ------------------------------------------------------------------ C23
\* C23: when the generator returned (False, message) to the service, the
\* task function ends by raising ProcessingError and has not reported 100;
\* when the generator returned (True, None), the task function returns its
\* success dictionary after reporting 100.
C23_Claim ==
    (task_pc = "returned" /\ result.kind = "pair") =>
        IF result.ok
        THEN task_result = "success" /\ reported[Len(reported)] = 100
        ELSE /\ task_result = "ProcessingError"
             /\ \A i \in DOMAIN reported : reported[i] # 100

\* ------------------------------------------------------------------ C24
\* tasks the APScheduler queue holds and nobody cancelled
Uncancelled == {t \in TaskIds : tasks[t].backend = "apscheduler" /\ ~tasks[t].cancelled}
Terminal(t) ==
    tasks[t].backend = "apscheduler" /\ tasks[t].status \in {"SUCCESS", "FAILURE"}
\* C25: in the APScheduler queue SUCCESS and FAILURE are absorbing, the
\* FAILURE stored by cancel_task included: no step changes a final status,
\* and the function of a cancelled task is not started again.
C25_Claim ==
    [][\A t \in TaskIds :
          /\ Terminal(t) => tasks'[t].status = tasks[t].status
          /\ (tasks[t].cancelled /\ ~tasks[t].running) => ~tasks'[t].running]_vars

\* ------------------------------------------------------------------ C26
\* enqueue stored PENDING and added the job
Accepted(t) == tasks[t].backend = "apscheduler" /\ tasks[t].enqueue = "scheduled"
InWindow(s) ==
    {i \in DOMAIN record_log : s <= record_log[i] /\ record_log[i] <= s + ONE_HOUR}
\* C27: under any interleaving of concurrent create_generation calls from
\* one IP, no one-hour window holds more recorded generation operations
\* than max_generations_per_hour.
C27_Claim ==
    \A i \in DOMAIN record_log :
        Cardinality(InWindow(record_log[i])) <= MaxGenerationsPerHour

\* ------------------------------------------------------------------ C28
\* no create_generation call is in progress
NoCallInProgress == \A c \in Callers : call[c].pc \in {"idle", "done"}
\* what is_allowed would answer now
WouldAllow ==
    /\ CheckHourlyLimit(PruneOld(hourly_data, now), MaxGenerationsPerHour)
    /\ CheckConcurrentLimit(concurrent_data, MaxConcurrentGenerations)
\* C28: once more than one hour has passed since the last recorded
\* operation of the IP and no call is in progress, is_allowed allows the IP
\* again: the IP is not refused forever.
C28_Claim ==
    (NoCallInProgress /\ record_log # <<>>
        /\ now - record_log[Len(record_log)] > ONE_HOUR) => WouldAllow

\* ------------------------------------------------------------------ C29
\* C29: a create_generation call that ended in RateLimitError or
\* ValidationError has left no heightmap file for the id it generated, and
\* the limiter's records change only in the step that returns a generation
\* id.
C29_Claim ==
    /\ [](\A c \in Callers :
             (call[c].pc = "done"
                 /\ call[c].outcome \in {"RateLimitError", "ValidationError"})
                 => heightmap_files[c] = "none")
    /\ [][(record_log' # record_log \/ concurrent_data' # concurrent_data) =>
             \E c \in Callers :
                 call[c].pc = "validated" /\ call'[c].outcome = "generation_id"]_vars

\* ------------------------------------------------------------------ C30
\* the app's own state and the task queue objects
app_state == <<settings, services, is_initialized, is_running, task_queues>>
\* the step is a shutdown() of an app initialized in APScheduler mode
ShutdownOfStartedApp ==
    /\ last_op' = "shutdown"
    /\ is_initialized
    /\ ~settings.use_celery
    /\ services.task_queue > 0
\* C30: after shutdown() of an app that was initialized in APScheduler
\* mode, the task queue that initialize() started is not running and
\* is_initialized is False; initialize() on an initialized app and
\* shutdown() on an uninitialized app change nothing.
C30_Claim ==
    [][/\ ShutdownOfStartedApp =>
            /\ ~is_initialized'
            /\ ~task_queues'[services.task_queue].is_running
       /\ ((last_op' = "initialize" /\ is_initialized)
              \/ (last_op' = "shutdown" /\ ~is_initialized))
            => app_state' = app_state]_vars

====
